---- MODULE Spec2Model ----
(***************************************************************************)
(* A model of pkg/virt-handler/cmd-client/client.go: the client a          *)
(* virt-handler uses to reach the virt-launcher of one virtual machine     *)
(* over a unix socket.                                                     *)
(*                                                                         *)
(* Text (paths, names, messages) is a sequence of one-character strings,   *)
(* so that joining, cleaning, splitting and formatting are computed as     *)
(* the Go code computes them.                                              *)
(***************************************************************************)
EXTENDS Integers, Sequences, FiniteSets, TLC

VARIABLES
    \* channel addressing
    apc,            \* position of the addressing caller
    baseDir,        \* the base directory handed to the addressing functions
    namespace,      \* the identity's namespace
    name,           \* the identity's name
    socketPath,     \* the address derived, or the path handed to the parser
    domain,         \* what DomainFromSocketPath returned: [domain, err]
    namespace2,     \* a second identity, for comparing two derivations
    name2,
    socketPath2,
    \* channel discovery
    fsState,        \* the sockets subdirectory: "absent" or "present"
    fsFault,        \* what the filesystem fails at: "none", "stat" or "read"
    entries,        \* the names of the files in the sockets subdirectory
    lpc,            \* position of the caller of ListAllSockets
    listed,         \* what ListAllSockets returned: [socketFiles, err]
    changed,        \* the filesystem changed since the last call began
    \* command dispatch
    peer,           \* the launcher: "down" or "listening"
    session,        \* the VirtLauncherClient: "none", "open" or "closed"
    shutdown,       \* the connection has ended (the rpc client's shutdown)
    connectErr,     \* the error of the last GetClient
    pc,             \* position of the caller: "idle", "waiting" or "ready"
    call,           \* the operation in progress: [op, cmd, args]
    wire,           \* the requests this operation transmitted: [cmd, args]
    outcome,        \* what client.Call gave: [err, reply]
    ret,            \* what the last operation returned
    dial,           \* the last GetClient: [attempts, heard]
    closes,         \* the calls of Close so far: [calls, dropped]
    invokedOn       \* the state of the session when the operation began

addrVars ==
    <<apc, baseDir, namespace, name, socketPath, domain,
      namespace2, name2, socketPath2>>

listVars ==
    <<fsState, fsFault, entries, lpc, listed, changed>>

cmdVars ==
    <<peer, session, shutdown, connectErr, pc, call, wire, outcome, ret,
      dial, closes, invokedOn>>

vars ==
    <<addrVars, listVars, cmdVars>>

(***************************************************************************)
(* Bounds.                                                                 *)
(***************************************************************************)
\* longest namespace or name of the identities of SpecAddr
MaxLen == 2
\* longest path handed directly to DomainFromSocketPath
MaxPath == 3
\* longest namespace or name when two identities are compared (SpecPair)
PairLen == 1
\* most files the sockets subdirectory holds
MaxFiles == 3
\* longest message of a reply or of a transport error
MaxMsg == 2
\* most calls of Close on one session
MaxCloses == 2

(***************************************************************************)
(* Text.                                                                   *)
(***************************************************************************)
\* the characters identities and paths are drawn from: two letters, the
\* identity separator, the path separator and the dot
Char ==
    {"a", "b", "_", "/", "."}

RECURSIVE StringsOfLen(_, _)
StringsOfLen(alphabet, n) ==
    IF n = 0 THEN {<<>>}
    ELSE {<<c>> \o s : c \in alphabet, s \in StringsOfLen(alphabet, n - 1)}

StringsUpTo(alphabet, n) ==
    UNION {StringsOfLen(alphabet, k) : k \in 0..n}

\* s[i..] of Go, 1-based here
Drop(s, i) ==
    SubSeq(s, i, Len(s))

\* the position of the first c in s, 0 when there is none
IndexOf(s, c) ==
    IF \E i \in 1..Len(s) : s[i] = c
    THEN CHOOSE i \in 1..Len(s) : s[i] = c /\ \A j \in 1..(i - 1) : s[j] # c
    ELSE 0

\* the position of the last c in s, 0 when there is none
LastIndexOf(s, c) ==
    IF \E i \in 1..Len(s) : s[i] = c
    THEN CHOOSE i \in 1..Len(s) : s[i] = c /\ \A j \in (i + 1)..Len(s) : s[j] # c
    ELSE 0

SocketsName ==
    <<"s","o","c","k","e","t","s">>

SockSuffix ==
    <<"_","s","o","c","k">>

MalformedPrefix ==
    <<"m","a","l","f","o","r","m","e","d"," ","d","o","m","a","i","n"," ","s",
      "o","c","k","e","t"," ">>

(***************************************************************************)
(* path/filepath, as client.go uses it (unix).                             *)
(***************************************************************************)
\* the elements of a path between its separators, empty ones included
RECURSIVE SplitPath(_)
SplitPath(p) ==
    LET i == IndexOf(p, "/")
    IN  IF i = 0 THEN <<p>>
        ELSE <<SubSeq(p, 1, i - 1)>> \o SplitPath(Drop(p, i + 1))

\* strings.Join(elems, "/")
RECURSIVE JoinSlash(_)
JoinSlash(elems) ==
    IF Len(elems) = 0 THEN <<>>
    ELSE IF Len(elems) = 1 THEN elems[1]
    ELSE elems[1] \o <<"/">> \o JoinSlash(Tail(elems))

\* the elements Clean keeps, given those kept so far: empty and "." elements
\* are dropped, ".." removes the element before it, is dropped at the root
\* and is kept at the head of a relative path
RECURSIVE CleanElems(_, _, _)
CleanElems(elems, out, rooted) ==
    IF Len(elems) = 0 THEN out
    ELSE LET e == Head(elems)
             rest == Tail(elems)
         IN  IF e = <<>> \/ e = <<".">>
             THEN CleanElems(rest, out, rooted)
             ELSE IF e = <<".", ".">>
             THEN IF Len(out) > 0 /\ out[Len(out)] # <<".", ".">>
                  THEN CleanElems(rest, SubSeq(out, 1, Len(out) - 1), rooted)
                  ELSE IF rooted
                  THEN CleanElems(rest, out, rooted)
                  ELSE CleanElems(rest, Append(out, e), rooted)
             ELSE CleanElems(rest, Append(out, e), rooted)

\* filepath.Clean
Clean(p) ==
    IF p = <<>> THEN <<".">>
    ELSE LET rooted == p[1] = "/"
             kept == JoinSlash(CleanElems(SplitPath(p), <<>>, rooted))
             res == IF rooted THEN <<"/">> \o kept ELSE kept
         IN  IF res = <<>> THEN <<".">> ELSE res

\* filepath.Join of two elements: empty elements are ignored, the rest is
\* joined with the separator and cleaned; all empty gives the empty path
Join(a, b) ==
    IF a = <<>> /\ b = <<>> THEN <<>>
    ELSE IF a = <<>> THEN Clean(b)
    ELSE Clean(a \o <<"/">> \o b)

\* p without its trailing separators
RECURSIVE StripTrailingSlashes(_)
StripTrailingSlashes(p) ==
    IF Len(p) > 0 /\ p[Len(p)] = "/"
    THEN StripTrailingSlashes(SubSeq(p, 1, Len(p) - 1))
    ELSE p

\* filepath.Base
Base(p) ==
    IF p = <<>> THEN <<".">>
    ELSE LET q == StripTrailingSlashes(p)
             r == Drop(q, LastIndexOf(q, "/") + 1)
         IN  IF r = <<>> THEN <<"/">> ELSE r

\* strings.SplitN(s, sep, n) for a one-character sep and n > 0: at most n
\* parts, the last one the unsplit remainder
RECURSIVE SplitN(_, _, _)
SplitN(s, sep, n) ==
    LET i == IndexOf(s, sep)
    IN  IF n = 1 \/ i = 0 THEN <<s>>
        ELSE <<SubSeq(s, 1, i - 1)>> \o SplitN(Drop(s, i + 1), sep, n - 1)

(***************************************************************************)
(* Errors. A Go error is compared by identity: id names the value (one of  *)
(* the package-level sentinels, or a value made on the spot), text is      *)
(* what Error() returns.                                                   *)
(***************************************************************************)
NoError ==
    [id |-> "nil", text |-> <<>>]

\* errors.New(text): a new value, equal to no sentinel
NewError(text) ==
    [id |-> "errorString", text |-> text]

(***************************************************************************)
(* Channel addressing.                                                     *)
(***************************************************************************)
\* a nil *api.Domain
NilDomain ==
    [isNil |-> TRUE, namespace |-> <<>>, name |-> <<>>]

\* api.NewDomainReferenceFromName: a domain carrying the identity
NewDomainReferenceFromName(ns, nm) ==
    [isNil |-> FALSE, namespace |-> ns, name |-> nm]

SocketsDirectory(dir) ==
    Join(dir, SocketsName)

\* a variant that writes the name before the namespace
SocketFromNamespaceName_Swapped(dir, ns, nm) ==
    LET sockFile == nm \o <<"_">> \o ns \o SockSuffix
    IN  Join(SocketsDirectory(dir), sockFile)

\* a variant that leaves out the separator between namespace and name
SocketFromNamespaceName_NoSeparator(dir, ns, nm) ==
    LET sockFile == ns \o nm \o SockSuffix
    IN  Join(SocketsDirectory(dir), sockFile)

SocketFromNamespaceName(dir, ns, nm) ==
    LET sockFile == ns \o <<"_">> \o nm \o SockSuffix
    IN  Join(SocketsDirectory(dir), sockFile)

\* a variant that splits at every '_'
SplitName_EveryPart(path) ==
    SplitN(Base(path), "_", -1)

\* the parts DomainFromSocketPath splits the file name into
SplitName(path) ==
    SplitN(Base(path), "_", 3)

\* a variant that accepts a file name of two parts
DomainFromSocketPath_TwoParts(path) ==
    LET splitName == SplitName(path)
    IN  IF Len(splitName) < 2
        THEN [domain |-> NilDomain,
              err |-> NewError(MalformedPrefix \o path)]
        ELSE [domain |-> NewDomainReferenceFromName(splitName[1], splitName[2]),
              err |-> NoError]

DomainFromSocketPath(path) ==
    LET splitName == SplitName(path)
    IN  IF Len(splitName) # 3
        THEN [domain |-> NilDomain,
              err |-> NewError(MalformedPrefix \o path)]
        ELSE [domain |-> NewDomainReferenceFromName(splitName[1], splitName[2]),
              err |-> NoError]

\* nothing returned yet
NoResult ==
    [domain |-> NilDomain, err |-> NoError]

\* the base directories tried: absolute, relative, unclean, empty
BaseDirs ==
    {<<"/", "r">>, <<"r", "/", "/">>, <<".", "/", "r">>, <<>>}

Identities ==
    StringsUpTo(Char, MaxLen)

Paths ==
    StringsUpTo(Char, MaxPath)

\* the characters of the identities compared in pairs
PairChar ==
    {"a", "_", "/", "."}

PairIdentities ==
    StringsUpTo(PairChar, PairLen)

PairBaseDirs ==
    {<<"/", "r">>, <<>>}

\* a caller holding an identity
InitIdentity ==
    /\ apc = "identity"
    /\ baseDir \in BaseDirs
    /\ namespace \in Identities
    /\ name \in Identities
    /\ socketPath = <<>>

\* a caller holding a path found elsewhere (a directory listing, a log)
InitPath ==
    /\ apc = "path"
    /\ baseDir = <<>>
    /\ namespace = <<>>
    /\ name = <<>>
    /\ socketPath \in Paths

NoSecond ==
    /\ namespace2 = <<>>
    /\ name2 = <<>>
    /\ socketPath2 = <<>>

InitAddr ==
    /\ InitIdentity \/ InitPath
    /\ domain = NoResult
    /\ NoSecond

\* socketPath := SocketFromNamespaceName(baseDir, namespace, name)
Derive ==
    /\ apc = "identity"
    /\ socketPath' = SocketFromNamespaceName(baseDir, namespace, name)
    /\ apc' = "derived"
    /\ UNCHANGED <<baseDir, namespace, name, domain, namespace2, name2, socketPath2,
                 listVars, cmdVars>>

\* domain, err := DomainFromSocketPath(socketPath), on a derived address
ParseDerived ==
    /\ apc = "derived"
    /\ domain' = DomainFromSocketPath(socketPath)
    /\ apc' = "roundtrip"
    /\ UNCHANGED <<baseDir, namespace, name, socketPath, namespace2, name2, socketPath2,
                 listVars, cmdVars>>

\* domain, err := DomainFromSocketPath(socketPath), on any path
ParsePath ==
    /\ apc = "path"
    /\ domain' = DomainFromSocketPath(socketPath)
    /\ apc' = "parsed"
    /\ UNCHANGED <<baseDir, namespace, name, socketPath, namespace2, name2, socketPath2,
                 listVars, cmdVars>>

NextAddr ==
    \/ Derive
    \/ ParseDerived
    \/ ParsePath

\* two callers, each holding an identity, under one base directory
InitPair ==
    /\ apc = "pair"
    /\ baseDir \in PairBaseDirs
    /\ namespace \in PairIdentities
    /\ name \in PairIdentities
    /\ namespace2 \in PairIdentities
    /\ name2 \in PairIdentities
    /\ socketPath = <<>>
    /\ socketPath2 = <<>>
    /\ domain = NoResult

\* socketPath := SocketFromNamespaceName(baseDir, namespace, name)
DeriveFirst ==
    /\ apc = "pair"
    /\ socketPath' = SocketFromNamespaceName(baseDir, namespace, name)
    /\ apc' = "first"
    /\ UNCHANGED <<baseDir, namespace, name, domain, namespace2, name2, socketPath2,
                 listVars, cmdVars>>

\* socketPath2 := SocketFromNamespaceName(baseDir, namespace2, name2)
DeriveSecond ==
    /\ apc = "first"
    /\ socketPath2' = SocketFromNamespaceName(baseDir, namespace2, name2)
    /\ apc' = "both"
    /\ UNCHANGED <<baseDir, namespace, name, domain, namespace2, name2, socketPath,
                 listVars, cmdVars>>

\* domain := DomainFromSocketPath(socketPath), the address of the first
\* identity handed back to the parser
ParseFirst ==
    /\ apc = "both"
    /\ domain' = DomainFromSocketPath(socketPath)
    /\ apc' = "parsedFirst"
    /\ UNCHANGED <<baseDir, namespace, name, socketPath,
                 namespace2, name2, socketPath2,
                 listVars, cmdVars>>

NextPair ==
    \/ DeriveFirst
    \/ DeriveSecond
    \/ ParseFirst

(***************************************************************************)
(* Requests, replies and the errors of the transport.                      *)
(***************************************************************************)
UnknownErrorPrefix ==
    <<"u","n","k","n","o","w","n"," ","e","r","r","o","r"," ","e","n","c","o",
      "u","n","t","e","r","e","d"," ","s","e","n","d","i","n","g"," ","c",
      "o","m","m","a","n","d"," ">>

ColonSpace ==
    <<":"," ">>

ServerErrorPrefix ==
    <<"s","e","r","v","e","r"," ","e","r","r","o","r","."," ","c","o","m","m",
      "a","n","d"," ">>

FailedInfix ==
    <<" ","f","a","i","l","e","d",":"," ">>

CmdSync ==
    <<"L","a","u","n","c","h","e","r",".","S","y","n","c">>

CmdShutdown ==
    <<"L","a","u","n","c","h","e","r",".","S","h","u","t","d","o","w","n">>

CmdKill ==
    <<"L","a","u","n","c","h","e","r",".","K","i","l","l">>

CmdSyncSecret ==
    <<"L","a","u","n","c","h","e","r",".","S","y","n","c","S","e","c","r","e",
      "t">>

CmdGetDomain ==
    <<"L","a","u","n","c","h","e","r",".","G","e","t","D","o","m","a","i","n">>

CmdPing ==
    <<"L","a","u","n","c","h","e","r",".","P","i","n","g">>

\* what fmt writes for a verb that has no operand, and for a lone '%'
PercentBang ==
    <<"%","!">>

MissingString ==
    <<"(","M","I","S","S","I","N","G",")">>

NoVerbString ==
    <<"%","!","(","N","O","V","E","R","B",")">>

MsgShutdown ==
    <<"c","o","n","n","e","c","t","i","o","n"," ","i","s"," ","s","h","u","t",
      " ","d","o","w","n">>

MsgUnexpectedEOF ==
    <<"u","n","e","x","p","e","c","t","e","d"," ","E","O","F">>

MsgEOF ==
    <<"E","O","F">>

MsgConnRefused ==
    <<"c","o","n","n","e","c","t","i","o","n"," ","r","e","f","u","s","e","d">>

MsgClosedConn ==
    <<"u","s","e"," ","o","f"," ","c","l","o","s","e","d"," ","n","e","t","w",
      "o","r","k"," ","c","o","n","n","e","c","t","i","o","n">>

\* the three values IsDisconnected knows
ErrShutdown ==
    [id |-> "rpc.ErrShutdown", text |-> MsgShutdown]

ErrUnexpectedEOF ==
    [id |-> "io.ErrUnexpectedEOF", text |-> MsgUnexpectedEOF]

EOF ==
    [id |-> "io.EOF", text |-> MsgEOF]

\* any other error of the transport: a value of its own with this text
OtherError(text) ==
    [id |-> "other", text |-> text]

\* the characters of messages: a letter and the character fmt gives a meaning
MsgChar ==
    {"x", "%"}

Messages ==
    StringsUpTo(MsgChar, MaxMsg)

\* the errors client.Call returns that are none of the three: the rpc
\* server's error string, a decoding failure; one of them reads "EOF"
OtherErrors ==
    {OtherError(m) : m \in Messages \cup {MsgEOF}}

\* the domain of a zero api.Domain{}
ZeroDomain ==
    [isNil |-> FALSE, namespace |-> <<>>, name |-> <<>>]

\* the domains a reply carries: none, an empty one, one with an identity
ReplyDomains ==
    {NilDomain, ZeroDomain, NewDomainReferenceFromName(<<"a">>, <<"b">>)}

\* &Reply{}
ZeroReply ==
    [Success |-> FALSE, Message |-> <<>>, Domain |-> NilDomain]

Replies ==
    [Success : BOOLEAN, Message : Messages, Domain : ReplyDomains]

\* &Args{}
ZeroArgs ==
    [VM |-> "nil", K8Secrets |-> "nil", SecretUsageType |-> "",
     SecretUsageID |-> "", SecretValue |-> ""]

\* the arguments the callers pass
VMs ==
    {"nil", "vm"}

SecretMaps ==
    {"nil", "secrets"}

SecretStrings ==
    {"", "s"}

(***************************************************************************)
(* fmt.Errorf(msg) with no operands: msg is read as a format. A '%'        *)
(* followed by '%' writes one '%'; followed by a verb it writes            *)
(* %!verb(MISSING); at the end it writes %!(NOVERB). Flags, widths and     *)
(* precisions do not occur after a '%' in the texts of this model.         *)
(***************************************************************************)
RECURSIVE Errorf(_)
Errorf(format) ==
    LET i == IndexOf(format, "%")
    IN  IF i = 0 THEN format
        ELSE SubSeq(format, 1, i - 1) \o
             (IF i = Len(format) THEN NoVerbString
              ELSE IF format[i + 1] = "%"
              THEN <<"%">> \o Errorf(Drop(format, i + 2))
              ELSE PercentBang \o <<format[i + 1]>> \o MissingString
                       \o Errorf(Drop(format, i + 2)))

(***************************************************************************)
(* Channel discovery. The sockets subdirectory is shared with the          *)
(* launchers, which create their socket files in it, and with whoever      *)
(* creates or removes the directory; ListAllSockets looks at it twice,     *)
(* once to see whether it exists and once to read it.                      *)
(***************************************************************************)
\* an error of the filesystem (*os.PathError), named by its cause
FsError(cause) ==
    [id |-> "PathError", text |-> cause]

ErrNotExist ==
    FsError(<<"E","N","O","E","N","T">>)

ErrPermission ==
    FsError(<<"E","A","C","C","E","S">>)

\* diskutils.FileExists: whether the path exists; an error only when the
\* filesystem could not tell
FileExists(fs, fault) ==
    IF fault = "stat" THEN [exists |-> FALSE, err |-> ErrPermission]
    ELSE IF fs = "absent" THEN [exists |-> FALSE, err |-> NoError]
    ELSE [exists |-> TRUE, err |-> NoError]

\* the sequences that hold each element of the set once
RECURSIVE Orderings(_)
Orderings(set) ==
    IF set = {} THEN {<<>>}
    ELSE UNION {{<<x>> \o rest : rest \in Orderings(set \ {x})} : x \in set}

\* ioutil.ReadDir: the names in the directory, in the order the listing
\* gives them, or an error
ReadDir(fs, fault, ents) ==
    IF fs = "absent" THEN {[files |-> <<>>, err |-> ErrNotExist]}
    ELSE IF fault # "none" THEN {[files |-> <<>>, err |-> ErrPermission]}
    ELSE {[files |-> o, err |-> NoError] : o \in Orderings(ents)}

\* the base directories of the discovery: absolute, relative unclean, current
ListBaseDirs ==
    {<<"/", "r">>, <<"r", "/", "/">>, <<".">>}

\* the namespaces and names of the launchers
ListNames ==
    {<<"a">>, <<"b">>}

\* names of files in the directory that no launcher created
StrayFiles ==
    {<<"x">>}

InitList ==
    /\ baseDir \in ListBaseDirs
    /\ fsState = "absent"
    /\ fsFault = "none"
    /\ entries = {}
    /\ lpc = "idle"
    /\ listed = [socketFiles |-> <<>>, err |-> NoError]
    /\ changed = FALSE

\* someone creates the sockets subdirectory
MkdirSockets ==
    /\ fsState = "absent"
    /\ fsState' = "present"
    /\ changed' = TRUE
    /\ UNCHANGED <<fsFault, entries, lpc, listed,
                 addrVars, cmdVars>>

\* someone removes the sockets subdirectory and what it holds
RemoveSockets ==
    /\ fsState = "present"
    /\ fsState' = "absent"
    /\ entries' = {}
    /\ changed' = TRUE
    /\ UNCHANGED <<fsFault, lpc, listed,
                 addrVars, cmdVars>>

\* a launcher starts listening on the address of its identity
LauncherListen(ns, nm) ==
    /\ fsState = "present"
    /\ Cardinality(entries) < MaxFiles
    /\ Base(SocketFromNamespaceName(baseDir, ns, nm)) \notin entries
    /\ entries' = entries \cup {Base(SocketFromNamespaceName(baseDir, ns, nm))}
    /\ changed' = TRUE
    /\ UNCHANGED <<fsState, fsFault, lpc, listed,
                 addrVars, cmdVars>>

\* someone creates another file in the directory
CreateStray(f) ==
    /\ fsState = "present"
    /\ Cardinality(entries) < MaxFiles
    /\ f \notin entries
    /\ entries' = entries \cup {f}
    /\ changed' = TRUE
    /\ UNCHANGED <<fsState, fsFault, lpc, listed,
                 addrVars, cmdVars>>

\* a file of the directory is removed
RemoveFile(f) ==
    /\ f \in entries
    /\ entries' = entries \ {f}
    /\ changed' = TRUE
    /\ UNCHANGED <<fsState, fsFault, lpc, listed,
                 addrVars, cmdVars>>

\* the filesystem starts or stops failing
SetFault(k) ==
    /\ fsFault # k
    /\ fsFault' = k
    /\ changed' = TRUE
    /\ UNCHANGED <<fsState, entries, lpc, listed,
                 addrVars, cmdVars>>

\* a variant of the first half without the early return for an absent
\* directory
ListCheck_NoEarlyReturn ==
    /\ lpc \in {"idle", "done"}
    /\ changed' = FALSE
    /\ LET r == FileExists(fsState, fsFault)
       IN  IF r.err # NoError
           THEN /\ listed' = [socketFiles |-> <<>>, err |-> r.err]
                /\ lpc' = "done"
           ELSE /\ listed' = [socketFiles |-> <<>>, err |-> NoError]
                /\ lpc' = "read"
    /\ UNCHANGED <<fsState, fsFault, entries,
                 addrVars, cmdVars>>

\* ListAllSockets up to the existence check: an error of the check and an
\* absent directory both return at once
ListCheck ==
    /\ lpc \in {"idle", "done"}
    /\ changed' = FALSE
    /\ LET r == FileExists(fsState, fsFault)
       IN  IF r.err # NoError
           THEN /\ listed' = [socketFiles |-> <<>>, err |-> r.err]
                /\ lpc' = "done"
           ELSE IF r.exists = FALSE
           THEN /\ listed' = [socketFiles |-> <<>>, err |-> NoError]
                /\ lpc' = "done"
           ELSE /\ listed' = [socketFiles |-> <<>>, err |-> NoError]
                /\ lpc' = "read"
    /\ UNCHANGED <<fsState, fsFault, entries,
                 addrVars, cmdVars>>

\* a variant that returns the bare file names
SocketFiles_BareNames(dir, files) ==
    files

\* the addresses ListAllSockets makes of the names read
SocketFiles(dir, files) ==
    [i \in 1..Len(files) |-> Join(Join(dir, SocketsName), files[i])]

\* ListAllSockets from the directory read to its return
ListRead ==
    /\ lpc = "read"
    /\ \E r \in ReadDir(fsState, fsFault, entries) :
           IF r.err # NoError
           THEN listed' = [socketFiles |-> <<>>, err |-> r.err]
           ELSE listed' = [socketFiles |-> SocketFiles(baseDir, r.files),
                           err |-> NoError]
    /\ lpc' = "done"
    /\ UNCHANGED <<fsState, fsFault, entries, changed,
                 addrVars, cmdVars>>

NextList ==
    \/ MkdirSockets
    \/ RemoveSockets
    \/ \E ns \in ListNames, nm \in ListNames : LauncherListen(ns, nm)
    \/ \E f \in StrayFiles : CreateStray(f)
    \/ \E f \in entries : RemoveFile(f)
    \/ \E k \in {"none", "stat", "read"} : SetFault(k)
    \/ ListCheck
    \/ ListRead

(***************************************************************************)
(* Command dispatch. A named operation builds its request and calls       *)
(* genericSendCmd, which blocks in client.Call until the transport gives   *)
(* a reply or an error, and then classifies what it got. The launcher and  *)
(* the transport act while the caller waits.                               *)
(***************************************************************************)
\* a variant that forgets the clean end of stream
IsDisconnected_NoEOF(err) ==
    err = ErrShutdown \/ err = ErrUnexpectedEOF

IsDisconnected(err) ==
    err = ErrShutdown \/ err = ErrUnexpectedEOF \/ err = EOF

\* a variant that looks at the reply before the error of the transport
genericSendCmd_ReplyFirst(cmd, err, reply) ==
    IF IsDisconnected(err)
    THEN [reply |-> reply, err |-> err]
    ELSE IF reply.Success # TRUE
    THEN [reply |-> reply,
          err |-> NewError(Errorf(ServerErrorPrefix \o cmd \o FailedInfix
                                    \o reply.Message))]
    ELSE IF err # NoError
    THEN [reply |-> reply,
          err |-> NewError(Errorf(UnknownErrorPrefix \o cmd \o ColonSpace
                                    \o err.text))]
    ELSE [reply |-> reply, err |-> NoError]

\* genericSendCmd after client.Call(cmd, args, reply) gave err and reply:
\* fmt.Sprintf puts cmd and the message into its constant format, and
\* fmt.Errorf then reads the result as a format of its own
genericSendCmd(cmd, err, reply) ==
    IF IsDisconnected(err)
    THEN [reply |-> reply, err |-> err]
    ELSE IF err # NoError
    THEN [reply |-> reply,
          err |-> NewError(Errorf(UnknownErrorPrefix \o cmd \o ColonSpace
                                    \o err.text))]
    ELSE IF reply.Success # TRUE
    THEN [reply |-> reply,
          err |-> NewError(Errorf(ServerErrorPrefix \o cmd \o FailedInfix
                                    \o reply.Message))]
    ELSE [reply |-> reply, err |-> NoError]

Ops ==
    {"SyncVirtualMachine", "ShutdownVirtualMachine", "KillVirtualMachine",
     "SyncSecret", "GetDomain", "Ping"}

\* a variant in which Kill sends the command name of Shutdown
Request_KillAsShutdown(op, vm, secrets, usageType, usageID, secretValue) ==
    CASE op \in {"ShutdownVirtualMachine", "KillVirtualMachine"} ->
             [cmd |-> CmdShutdown, args |-> [ZeroArgs EXCEPT !.VM = vm]]
      [] op = "GetDomain" ->
             [cmd |-> CmdGetDomain, args |-> ZeroArgs]
      [] op = "SyncVirtualMachine" ->
             [cmd |-> CmdSync,
              args |-> [ZeroArgs EXCEPT !.VM = vm, !.K8Secrets = secrets]]
      [] op = "SyncSecret" ->
             [cmd |-> CmdSyncSecret,
              args |-> [ZeroArgs EXCEPT !.VM = vm,
                                        !.SecretUsageType = usageType,
                                        !.SecretUsageID = usageID,
                                        !.SecretValue = secretValue]]
      [] op = "Ping" ->
             [cmd |-> CmdPing, args |-> ZeroArgs]

\* a variant in which Shutdown sends the secret map as well
Request_ShutdownWithSecrets(op, vm, secrets, usageType, usageID, secretValue) ==
    CASE op = "ShutdownVirtualMachine" ->
             [cmd |-> CmdShutdown,
              args |-> [ZeroArgs EXCEPT !.VM = vm, !.K8Secrets = secrets]]
      [] op = "KillVirtualMachine" ->
             [cmd |-> CmdKill, args |-> [ZeroArgs EXCEPT !.VM = vm]]
      [] op = "GetDomain" ->
             [cmd |-> CmdGetDomain, args |-> ZeroArgs]
      [] op = "SyncVirtualMachine" ->
             [cmd |-> CmdSync,
              args |-> [ZeroArgs EXCEPT !.VM = vm, !.K8Secrets = secrets]]
      [] op = "SyncSecret" ->
             [cmd |-> CmdSyncSecret,
              args |-> [ZeroArgs EXCEPT !.VM = vm,
                                        !.SecretUsageType = usageType,
                                        !.SecretUsageID = usageID,
                                        !.SecretValue = secretValue]]
      [] op = "Ping" ->
             [cmd |-> CmdPing, args |-> ZeroArgs]

\* the command name and the arguments each named operation sends
Request(op, vm, secrets, usageType, usageID, secretValue) ==
    CASE op = "ShutdownVirtualMachine" ->
             [cmd |-> CmdShutdown, args |-> [ZeroArgs EXCEPT !.VM = vm]]
      [] op = "KillVirtualMachine" ->
             [cmd |-> CmdKill, args |-> [ZeroArgs EXCEPT !.VM = vm]]
      [] op = "GetDomain" ->
             [cmd |-> CmdGetDomain, args |-> ZeroArgs]
      [] op = "SyncVirtualMachine" ->
             [cmd |-> CmdSync,
              args |-> [ZeroArgs EXCEPT !.VM = vm, !.K8Secrets = secrets]]
      [] op = "SyncSecret" ->
             [cmd |-> CmdSyncSecret,
              args |-> [ZeroArgs EXCEPT !.VM = vm,
                                        !.SecretUsageType = usageType,
                                        !.SecretUsageID = usageID,
                                        !.SecretValue = secretValue]]
      [] op = "Ping" ->
             [cmd |-> CmdPing, args |-> ZeroArgs]

\* a variant of GetDomain that reports a domain whenever the call succeeded
OpReturn_AlwaysExists(op, g) ==
    IF op = "GetDomain"
    THEN IF g.err # NoError
         THEN [domain |-> NilDomain, exists |-> FALSE, err |-> g.err]
         ELSE [domain |-> g.reply.Domain, exists |-> TRUE, err |-> NoError]
    ELSE [domain |-> NilDomain, exists |-> FALSE, err |-> g.err]

\* what the named operation returns, given what genericSendCmd returned:
\* GetDomain returns (domain, exists, err), the others err alone
OpReturn(op, g) ==
    IF op = "GetDomain"
    THEN IF g.err # NoError
         THEN [domain |-> NilDomain, exists |-> FALSE, err |-> g.err]
         ELSE IF g.reply.Domain # NilDomain
         THEN [domain |-> g.reply.Domain, exists |-> TRUE, err |-> NoError]
         ELSE [domain |-> ZeroDomain, exists |-> FALSE, err |-> NoError]
    ELSE [domain |-> NilDomain, exists |-> FALSE, err |-> g.err]

NoCall ==
    [op |-> "none", cmd |-> <<>>, args |-> ZeroArgs]

NoOutcome ==
    [cause |-> "none", err |-> NoError, reply |-> ZeroReply]

NoRet ==
    [op |-> "none", reply |-> ZeroReply, err |-> NoError,
     result |-> [domain |-> NilDomain, exists |-> FALSE, err |-> NoError]]

\* GetClient has not been called
NoDial ==
    [attempts |-> 0, heard |-> "none"]

\* Close has not been called
NoCloses ==
    [calls |-> 0, dropped |-> NoError]

\* the replies a failed decoding leaves behind: untouched, or filled in part
PartialReplies ==
    {ZeroReply, [ZeroReply EXCEPT !.Success = TRUE]}

InitCmd ==
    /\ peer \in {"down", "listening"}
    /\ session = "none"
    /\ shutdown = FALSE
    /\ connectErr = NoError
    /\ pc = "idle"
    /\ call = NoCall
    /\ wire = <<>>
    /\ outcome = NoOutcome
    /\ ret = NoRet
    /\ dial = NoDial
    /\ closes = NoCloses
    /\ invokedOn = "none"

\* the launcher starts listening on its socket
PeerStart ==
    /\ peer = "down"
    /\ peer' = "listening"
    /\ UNCHANGED <<session, shutdown, connectErr, pc, call, wire, outcome, ret,
                 dial, closes, invokedOn, addrVars, listVars>>

\* the launcher stops listening
PeerStop ==
    /\ peer = "listening"
    /\ peer' = "down"
    /\ UNCHANGED <<session, shutdown, connectErr, pc, call, wire, outcome, ret,
                 dial, closes, invokedOn, addrVars, listVars>>

\* a variant that hands out a client although the dial failed
GetClient_ClientOnError ==
    /\ session = "none"
    /\ dial' = [attempts |-> 1, heard |-> peer]
    /\ session' = "open"
    /\ connectErr' = (IF peer = "listening" THEN NoError
                      ELSE OtherError(MsgConnRefused))
    /\ UNCHANGED <<peer, shutdown, pc, call, wire, outcome, ret,
                 closes, invokedOn, addrVars, listVars>>

\* GetClient: one rpc.Dial, which fails when nobody listens, and then no
\* client is made
GetClient ==
    /\ session = "none"
    /\ dial' = [attempts |-> 1, heard |-> peer]
    /\ IF peer = "listening"
       THEN /\ session' = "open"
            /\ connectErr' = NoError
       ELSE /\ session' = "none"
            /\ connectErr' = OtherError(MsgConnRefused)
    /\ UNCHANGED <<peer, shutdown, pc, call, wire, outcome, ret,
                 closes, invokedOn, addrVars, listVars>>

\* a variant that transmits on a client that Close has closed
Invoke_IgnoresClose(op, vm, secrets, usageType, usageID, secretValue) ==
    /\ session # "none"
    /\ pc = "idle"
    /\ LET req == Request(op, vm, secrets, usageType, usageID, secretValue)
       IN  /\ call' = [op |-> op, cmd |-> req.cmd, args |-> req.args]
           /\ IF shutdown
              THEN /\ wire' = <<>>
                   /\ outcome' = [cause |-> "shutdown", err |-> ErrShutdown,
                                  reply |-> ZeroReply]
                   /\ pc' = "ready"
              ELSE /\ wire' = <<[cmd |-> req.cmd, args |-> req.args]>>
                   /\ outcome' = NoOutcome
                   /\ pc' = "waiting"
    /\ ret' = NoRet
    /\ invokedOn' = (IF session = "closed" THEN "closed"
                     ELSE IF shutdown THEN "shutdown" ELSE "open")
    /\ UNCHANGED <<peer, session, shutdown, connectErr,
                 dial, closes, addrVars, listVars>>

\* a named operation up to the point where client.Call blocks: on a
\* client that is closing or shut down Call returns ErrShutdown at once and
\* nothing is transmitted
Invoke(op, vm, secrets, usageType, usageID, secretValue) ==
    /\ session # "none"
    /\ pc = "idle"
    /\ LET req == Request(op, vm, secrets, usageType, usageID, secretValue)
       IN  /\ call' = [op |-> op, cmd |-> req.cmd, args |-> req.args]
           /\ IF session = "closed" \/ shutdown
              THEN /\ wire' = <<>>
                   /\ outcome' = [cause |-> "shutdown", err |-> ErrShutdown,
                                  reply |-> ZeroReply]
                   /\ pc' = "ready"
              ELSE /\ wire' = <<[cmd |-> req.cmd, args |-> req.args]>>
                   /\ outcome' = NoOutcome
                   /\ pc' = "waiting"
    /\ ret' = NoRet
    /\ invokedOn' = (IF session = "closed" THEN "closed"
                     ELSE IF shutdown THEN "shutdown" ELSE "open")
    /\ UNCHANGED <<peer, session, shutdown, connectErr,
                 dial, closes, addrVars, listVars>>

\* the launcher answers the request
PeerReply(r) ==
    /\ pc = "waiting"
    /\ outcome' = [cause |-> "reply", err |-> NoError, reply |-> r]
    /\ pc' = "ready"
    /\ UNCHANGED <<peer, session, shutdown, connectErr, call, wire, ret,
                 dial, closes, invokedOn, addrVars, listVars>>

\* the rpc server answers with an error string: the reply stays as it was
\* made and the client goes on reading the connection
ServerFault(e) ==
    /\ pc = "waiting"
    /\ outcome' = [cause |-> "serverError", err |-> e, reply |-> ZeroReply]
    /\ pc' = "ready"
    /\ UNCHANGED <<peer, session, shutdown, connectErr, call, wire, ret,
                 dial, closes, invokedOn, addrVars, listVars>>

\* the body of the response cannot be decoded: the call ends with that
\* error, the rpc client stops reading the connection and is shut down
TransportFault(e, r) ==
    /\ pc = "waiting"
    /\ outcome' = [cause |-> "fault", err |-> e, reply |-> r]
    /\ pc' = "ready"
    /\ shutdown' = TRUE
    /\ UNCHANGED <<peer, session, connectErr, call, wire, ret,
                 dial, closes, invokedOn, addrVars, listVars>>

\* the launcher closes the connection: the transport reports the end of the
\* stream to a pending call, and the client is shut down from then on
PeerClose(e) ==
    /\ session # "none"
    /\ shutdown = FALSE
    /\ shutdown' = TRUE
    /\ IF pc = "waiting"
       THEN /\ outcome' = [cause |-> "peerClosed", err |-> e, reply |-> ZeroReply]
            /\ pc' = "ready"
       ELSE UNCHANGED <<outcome, pc>>
    /\ UNCHANGED <<peer, session, connectErr, call, wire, ret,
                 dial, closes, invokedOn, addrVars, listVars>>

\* a variant in which a second Close undoes the first
Close_Toggles(e) ==
    /\ session # "none"
    /\ closes.calls < MaxCloses
    /\ session' = (IF session = "closed" THEN "open" ELSE "closed")
    /\ closes' = [calls |-> closes.calls + 1,
                  dropped |-> IF session = "closed" THEN ErrShutdown
                              ELSE NoError]
    /\ IF pc = "waiting"
       THEN /\ outcome' = [cause |-> "closed", err |-> e, reply |-> ZeroReply]
            /\ pc' = "ready"
            /\ shutdown' = TRUE
       ELSE UNCHANGED <<outcome, pc, shutdown>>
    /\ UNCHANGED <<peer, connectErr, call, wire, ret,
                 dial, invokedOn, addrVars, listVars>>

\* Close: c.client.Close(), whose result is dropped: nil for the call that
\* closes the connection, ErrShutdown for every later one. A call pending on
\* the connection ends with ErrShutdown or with the error of reading a
\* closed connection, whichever the transport meets first
Close(e) ==
    /\ session # "none"
    /\ closes.calls < MaxCloses
    /\ session' = "closed"
    /\ closes' = [calls |-> closes.calls + 1,
                  dropped |-> IF session = "closed" THEN ErrShutdown
                              ELSE NoError]
    /\ IF pc = "waiting"
       THEN /\ outcome' = [cause |-> "closed", err |-> e, reply |-> ZeroReply]
            /\ pc' = "ready"
            /\ shutdown' = TRUE
       ELSE UNCHANGED <<outcome, pc, shutdown>>
    /\ UNCHANGED <<peer, connectErr, call, wire, ret,
                 dial, invokedOn, addrVars, listVars>>

\* a variant that sends the request once more when the peer is gone
Return_RetryWhenDisconnected ==
    /\ pc = "ready"
    /\ LET g == genericSendCmd(call.cmd, outcome.err, outcome.reply)
       IN  IF IsDisconnected(g.err) /\ Len(wire) = 1
           THEN /\ wire' = Append(wire, wire[1])
                /\ pc' = "waiting"
                /\ ret' = ret
           ELSE /\ ret' = [op |-> call.op, reply |-> g.reply, err |-> g.err,
                           result |-> OpReturn(call.op, g)]
                /\ pc' = "idle"
                /\ wire' = wire
    /\ UNCHANGED <<peer, session, shutdown, connectErr, call, outcome,
                 dial, closes, invokedOn, addrVars, listVars>>

\* a variant that closes the session when the launcher rejects the command
Return_ClosesOnRejection ==
    /\ pc = "ready"
    /\ LET g == genericSendCmd(call.cmd, outcome.err, outcome.reply)
       IN  /\ ret' = [op |-> call.op, reply |-> g.reply, err |-> g.err,
                      result |-> OpReturn(call.op, g)]
           /\ session' = (IF outcome.err = NoError /\ g.err # NoError
                          THEN "closed" ELSE session)
    /\ pc' = "idle"
    /\ UNCHANGED <<peer, shutdown, connectErr, call, wire, outcome,
                 dial, closes, invokedOn, addrVars, listVars>>

\* client.Call has returned: genericSendCmd classifies and the named
\* operation returns
Return ==
    /\ pc = "ready"
    /\ LET g == genericSendCmd(call.cmd, outcome.err, outcome.reply)
       IN  ret' = [op |-> call.op, reply |-> g.reply, err |-> g.err,
                   result |-> OpReturn(call.op, g)]
    /\ pc' = "idle"
    /\ UNCHANGED <<peer, session, shutdown, connectErr, call, wire, outcome,
                 dial, closes, invokedOn, addrVars, listVars>>

NextCmd ==
    \/ PeerStart
    \/ PeerStop
    \/ GetClient
    \/ \E op \in Ops, vm \in VMs, secrets \in SecretMaps,
          usageType \in SecretStrings, usageID \in SecretStrings,
          secretValue \in SecretStrings :
           Invoke(op, vm, secrets, usageType, usageID, secretValue)
    \/ \E r \in Replies : PeerReply(r)
    \/ \E e \in OtherErrors : ServerFault(e)
    \/ \E e \in OtherErrors, r \in PartialReplies : TransportFault(e, r)
    \/ \E e \in {ErrUnexpectedEOF, EOF} : PeerClose(e)
    \/ \E e \in {ErrShutdown, OtherError(MsgClosedConn)} : Close(e)
    \/ Return

(***************************************************************************)
(* Specifications. Each part of the client is run on its own, the other    *)
(* parts at rest.                                                          *)
(***************************************************************************)
\* the addressing variables at rest
AddrOff ==
    /\ apc = "off"
    /\ namespace = <<>>
    /\ name = <<>>
    /\ socketPath = <<>>
    /\ domain = NoResult
    /\ NoSecond

\* no caller of ListAllSockets, an untouched filesystem
ListOff ==
    /\ fsState = "absent"
    /\ fsFault = "none"
    /\ entries = {}
    /\ lpc = "off"
    /\ listed = [socketFiles |-> <<>>, err |-> NoError]
    /\ changed = FALSE

\* no client, no launcher
CmdOff ==
    /\ peer = "off"
    /\ session = "none"
    /\ shutdown = FALSE
    /\ connectErr = NoError
    /\ pc = "idle"
    /\ call = NoCall
    /\ wire = <<>>
    /\ outcome = NoOutcome
    /\ ret = NoRet
    /\ dial = NoDial
    /\ closes = NoCloses
    /\ invokedOn = "none"

\* one caller of the addressing functions, nothing else in the system
InitSpecAddr ==
    InitAddr /\ ListOff /\ CmdOff

SpecAddr ==
    InitSpecAddr /\ [][NextAddr]_vars

InitSpecPair ==
    InitPair /\ ListOff /\ CmdOff

SpecPair ==
    InitSpecPair /\ [][NextPair]_vars

\* the directory of sockets, its users and a caller of ListAllSockets
InitSpecList ==
    InitList /\ AddrOff /\ CmdOff

SpecList ==
    InitSpecList /\ [][NextList]_vars

\* the command dispatch
Init ==
    InitCmd /\ AddrOff /\ baseDir = <<>> /\ ListOff

Spec ==
    Init /\ [][NextCmd]_vars

(***************************************************************************)
(* Claims about channel addressing.                                        *)
(***************************************************************************)
HasChar(s, c) ==
    \E i \in 1..Len(s) : s[i] = c

\* how many times c occurs in s
RECURSIVE CountChar(_, _)
CountChar(s, c) ==
    IF s = <<>> THEN 0
    ELSE (IF Head(s) = c THEN 1 ELSE 0) + CountChar(Tail(s), c)

\* the round trip gave the identity back
RoundTripYieldsIdentity ==
    /\ domain.err = NoError
    /\ domain.domain.isNil = FALSE
    /\ domain.domain.namespace = namespace
    /\ domain.domain.name = name

\* C5 as stated: for every base directory and every identity whose namespace
\* and name hold no '_', DomainFromSocketPath of the address that
\* SocketFromNamespaceName derives succeeds and yields that namespace and name.
C5_RoundTripNoSeparator ==
    (apc = "roundtrip" /\ ~HasChar(namespace, "_") /\ ~HasChar(name, "_"))
        => RoundTripYieldsIdentity

\* C5 amended: the round trip yields the identity when namespace and name hold
\* neither '_' nor the path separator '/'.
C5_RoundTripNoSeparatorNoSlash ==
    (/\ apc = "roundtrip"
     /\ ~HasChar(namespace, "_") /\ ~HasChar(name, "_")
     /\ ~HasChar(namespace, "/") /\ ~HasChar(name, "/"))
        => RoundTripYieldsIdentity

C5_Witness ==
    /\ apc = "roundtrip"
    /\ namespace = <<"a", ".">>
    /\ name = <<"b">>
    /\ baseDir = <<"r", "/", "/">>
    /\ RoundTripYieldsIdentity

\* C6: DomainFromSocketPath fails with 'malformed domain socket <path>' and
\* returns no domain for every path whose final segment holds fewer than two
\* '_', that is, splits into fewer than three parts.
C6_FewerThanThreePartsMalformed ==
    (apc \in {"parsed", "roundtrip"} /\ CountChar(Base(socketPath), "_") < 2)
        => /\ domain.domain = NilDomain
           /\ domain.err.id = "errorString"
           /\ domain.err.text = MalformedPrefix \o socketPath

C6_Witness ==
    /\ apc = "parsed"
    /\ socketPath = <<"a", "_", "/">>
    /\ domain.domain = NilDomain
    /\ domain.err.text = MalformedPrefix \o socketPath

NoSeparator(s) ==
    ~HasChar(s, "_")

NoSlash(s) ==
    ~HasChar(s, "/")

\* C7 as stated: under one base directory the same identity yields the same
\* address, and two different identities whose components hold no '_' never
\* yield the same address.
C7_InjectiveNoSeparator ==
    (/\ apc = "both"
     /\ NoSeparator(namespace) /\ NoSeparator(name)
     /\ NoSeparator(namespace2) /\ NoSeparator(name2))
        => (socketPath = socketPath2 <=> (namespace = namespace2 /\ name = name2))

\* C7 amended: the same holds when the components hold neither '_' nor the
\* path separator '/'.
C7_InjectiveNoSeparatorNoSlash ==
    (/\ apc = "both"
     /\ NoSeparator(namespace) /\ NoSeparator(name)
     /\ NoSeparator(namespace2) /\ NoSeparator(name2)
     /\ NoSlash(namespace) /\ NoSlash(name)
     /\ NoSlash(namespace2) /\ NoSlash(name2))
        => (socketPath = socketPath2 <=> (namespace = namespace2 /\ name = name2))

C7_Witness ==
    /\ apc = "both"
    /\ namespace = <<"a">> /\ name = <<>>
    /\ namespace2 = <<>> /\ name2 = <<"a">>
    /\ socketPath = <<"/", "r", "/">> \o SocketsName \o <<"/", "a", "_">> \o SockSuffix
    /\ socketPath2 = <<"/", "r", "/">> \o SocketsName \o <<"/", "_", "a">> \o SockSuffix

(***************************************************************************)
(* Claims about channel discovery.                                         *)
(***************************************************************************)
Range(seq) ==
    {seq[i] : i \in 1..Len(seq)}

NoDuplicates(seq) ==
    \A i, j \in 1..Len(seq) : seq[i] = seq[j] => i = j

\* C8: ListAllSockets on a base directory that has no sockets subdirectory
\* returns an empty sequence and a nil error (the existence check telling
\* so, that is, not failing itself).
C8_AbsentDirectoryEmptyNoError ==
    (/\ lpc = "done" /\ ~changed
     /\ fsState = "absent" /\ fsFault # "stat")
        => /\ listed.socketFiles = <<>>
           /\ listed.err = NoError

C8_Witness ==
    /\ lpc = "done" /\ ~changed
    /\ fsState = "absent" /\ fsFault = "none"
    /\ listed = [socketFiles |-> <<>>, err |-> NoError]

\* <baseDir>/sockets/<file name>, as a path
ChannelPath(dir, f) ==
    Clean(dir \o <<"/">> \o SocketsName \o <<"/">> \o f)

\* C9: when the sockets subdirectory holds N files, is readable and nothing
\* changes during the call, ListAllSockets returns N addresses without
\* duplicates, one per file, each the path <baseDir>/sockets/<file name>;
\* the address SocketFromNamespaceName derives for an identity whose
\* launcher has its socket there is among them.
C9_ListsEveryFileOnce ==
    (/\ lpc = "done" /\ ~changed
     /\ fsState = "present" /\ fsFault = "none")
        => /\ listed.err = NoError
           /\ Len(listed.socketFiles) = Cardinality(entries)
           /\ NoDuplicates(listed.socketFiles)
           /\ Range(listed.socketFiles) = {ChannelPath(baseDir, f) : f \in entries}
           /\ \A ns \in ListNames, nm \in ListNames :
                  (ns \o <<"_">> \o nm \o SockSuffix) \in entries
                      => SocketFromNamespaceName(baseDir, ns, nm)
                             \in Range(listed.socketFiles)

C9_Witness ==
    /\ lpc = "done" /\ ~changed
    /\ fsState = "present" /\ fsFault = "none"
    /\ baseDir = <<"r", "/", "/">>
    /\ Cardinality(entries) = 3
    /\ <<"x">> \in entries
    /\ Len(listed.socketFiles) = 3
    /\ listed.socketFiles[1] = <<"r", "/">> \o SocketsName \o <<"/", "x">>

(***************************************************************************)
(* Claims about command dispatch.                                          *)
(***************************************************************************)
\* the operation has returned; outcome is what client.Call gave it
Returned ==
    pc = "idle" /\ ret.op # "none"

\* sub occurs in s, character for character
Contains(s, sub) ==
    \E i \in 0..(Len(s) - Len(sub)) : SubSeq(s, i + 1, i + Len(sub)) = sub

HasPrefix(s, prefix) ==
    Len(s) >= Len(prefix) /\ SubSeq(s, 1, Len(prefix)) = prefix

\* the error is one of the three values that mean the peer is gone
DisconnectedError(err) ==
    err \in {ErrShutdown, ErrUnexpectedEOF, EOF}

\* the error is a new value whose text starts 'unknown error encountered
\* sending command '
TransportError(err) ==
    err.id = "errorString" /\ HasPrefix(err.text, UnknownErrorPrefix)

\* the error is a new value whose text starts 'server error. command '
ApplicationRejection(err) ==
    err.id = "errorString" /\ HasPrefix(err.text, ServerErrorPrefix)

\* C1: when the peer closes the connection before a reply arrives, or the
\* transport reports connection shut down, unexpected end of stream or clean
\* end of stream, genericSendCmd returns that very error: it is Disconnected
\* and is neither a transport error nor an application rejection.
C1_PeerGoneIsDisconnected ==
    (Returned /\ (outcome.cause = "peerClosed" \/ DisconnectedError(outcome.err)))
        => /\ ret.err = outcome.err
           /\ DisconnectedError(ret.err)
           /\ ~TransportError(ret.err)
           /\ ~ApplicationRejection(ret.err)

C1_Witness ==
    /\ Returned
    /\ ret.op = "SyncSecret"
    /\ outcome.cause = "peerClosed"
    /\ wire # <<>>
    /\ ret.err = EOF

\* C2: for every command and every message x, when the transport succeeds and
\* the reply has success=false and message=x, genericSendCmd returns an
\* application rejection whose text carries the command name and x verbatim,
\* and which is not Disconnected.
C2_RejectionCarriesMessage ==
    (Returned /\ outcome.err = NoError /\ outcome.reply.Success = FALSE)
        => /\ ApplicationRejection(ret.err)
           /\ Contains(ret.err.text, call.cmd)
           /\ Contains(ret.err.text, outcome.reply.Message)
           /\ ~DisconnectedError(ret.err)

\* the three classes and success, in the order genericSendCmd tries them
ExpectedClass(err, reply) ==
    IF DisconnectedError(err) THEN "disconnected"
    ELSE IF err # NoError THEN "transport"
    ELSE IF reply.Success = FALSE THEN "rejected"
    ELSE "success"

ClassOf(err) ==
    IF err = NoError THEN "success"
    ELSE IF DisconnectedError(err) THEN "disconnected"
    ELSE IF TransportError(err) THEN "transport"
    ELSE IF ApplicationRejection(err) THEN "rejected"
    ELSE "unclassified"

\* C3: genericSendCmd returns a nil error exactly when the transport gave no
\* error and the reply's success is true, and then returns the reply the peer
\* filled in; otherwise it returns one of the three classes, Disconnected
\* before transport error before application rejection, so that the reply's
\* success is not looked at when the transport failed.
C3_ClassifiedInPriorityOrder ==
    Returned
        => /\ (ret.err = NoError)
                  <=> (outcome.err = NoError /\ outcome.reply.Success = TRUE)
           /\ ret.err = NoError => ret.reply = outcome.reply
           /\ ClassOf(ret.err) = ExpectedClass(outcome.err, outcome.reply)

C3_Witness ==
    /\ Returned
    /\ outcome.cause = "fault"
    /\ outcome.reply.Success = TRUE
    /\ ClassOf(ret.err) = "transport"

\* C4: for every failure of the transport that is none of the three
\* peer-gone signals, genericSendCmd returns a transport error whose text
\* carries the command name and the message of the underlying error, and
\* which IsDisconnected does not take for Disconnected.
C4_TransportErrorCarriesCause ==
    (Returned /\ outcome.err # NoError /\ ~DisconnectedError(outcome.err))
        => /\ TransportError(ret.err)
           /\ Contains(ret.err.text, call.cmd)
           /\ Contains(ret.err.text, outcome.err.text)
           /\ ~IsDisconnected(ret.err)

\* C10: GetDomain returns exists=false, a nil error and a non-nil zero-value
\* domain when the peer replies with success and no domain; exists=true and
\* the peer's domain exactly when the successful reply carries one; and
\* exists=false, the error and no domain on any classified error.
C10_GetDomainResult ==
    (Returned /\ ret.op = "GetDomain")
        => LET ok == outcome.err = NoError /\ outcome.reply.Success = TRUE
               carries == outcome.reply.Domain.isNil = FALSE
               r == ret.result
           IN  /\ (ok /\ ~carries)
                      => r = [domain |-> ZeroDomain, exists |-> FALSE,
                              err |-> NoError]
               /\ r.exists <=> (ok /\ carries)
               /\ r.exists => (r.domain = outcome.reply.Domain /\ r.err = NoError)
               /\ ~ok => (/\ r.exists = FALSE
                          /\ r.err = ret.err /\ r.err # NoError
                          /\ r.domain = NilDomain)

C10_Witness ==
    /\ Returned /\ ret.op = "GetDomain"
    /\ outcome.cause = "reply"
    /\ outcome.reply.Success = TRUE
    /\ outcome.reply.Domain = NilDomain
    /\ ret.result = [domain |-> ZeroDomain, exists |-> FALSE, err |-> NoError]

\* C11: when no peer listens at the address, GetClient fails with the connect
\* error and returns no session, so that no command, Ping included, is begun
\* or transmitted: without a session there is no command exchange, and a
\* failed connect leaves no session.
C11_ConnectFailureExcludesCommands ==
    /\ dial.heard = "down"
           => (connectErr # NoError /\ session = "none")
    /\ session = "none"
           => (/\ pc = "idle" /\ call = NoCall /\ wire = <<>>
               /\ outcome = NoOutcome /\ ret = NoRet)

C11_Witness ==
    /\ dial = [attempts |-> 1, heard |-> "down"]
    /\ peer = "listening"
    /\ session = "none"
    /\ connectErr = OtherError(MsgConnRefused)
    /\ wire = <<>>

\* the command table: the name each named operation sends
CommandName(op) ==
    CASE op = "SyncVirtualMachine" -> CmdSync
      [] op = "ShutdownVirtualMachine" -> CmdShutdown
      [] op = "KillVirtualMachine" -> CmdKill
      [] op = "SyncSecret" -> CmdSyncSecret
      [] op = "GetDomain" -> CmdGetDomain
      [] op = "Ping" -> CmdPing

\* C12: each named operation calls and transmits under exactly its fixed
\* command name, and returns to its caller exactly the error genericSendCmd
\* produced for that command from what client.Call gave.
C12_FixedCommandNameAndError ==
    /\ call.op # "none" => call.cmd = CommandName(call.op)
    /\ \A i \in 1..Len(wire) : wire[i].cmd = CommandName(call.op)
    /\ Returned
           => /\ ret.op = call.op
              /\ ret.result.err =
                     genericSendCmd(CommandName(ret.op), outcome.err,
                                    outcome.reply).err

C12_Witness ==
    /\ Returned
    /\ ret.op = "KillVirtualMachine"
    /\ Len(wire) = 1 /\ wire[1].cmd = CmdKill
    /\ outcome.cause = "reply" /\ outcome.reply.Success = FALSE
    /\ ret.result.err = NewError(ServerErrorPrefix \o CmdKill \o FailedInfix)

\* the string fields of the args are empty
NoSecretFields(a) ==
    a.SecretUsageType = "" /\ a.SecretUsageID = "" /\ a.SecretValue = ""

\* C13 as stated: each named operation leaves empty every field the command
\* table does not list for it: Sync all but the workload definition and the
\* secret map, Shutdown and Kill all but the workload definition, SyncSecret
\* the workload definition and the secret map, GetDomain and Ping every field.
C13_OnlyListedFields ==
    call.op # "none"
        => LET a == call.args
           IN  /\ call.op = "SyncVirtualMachine" => NoSecretFields(a)
               /\ call.op \in {"ShutdownVirtualMachine", "KillVirtualMachine"}
                      => (a.K8Secrets = "nil" /\ NoSecretFields(a))
               /\ call.op = "SyncSecret"
                      => (a.VM = "nil" /\ a.K8Secrets = "nil")
               /\ call.op \in {"GetDomain", "Ping"} => a = ZeroArgs
               /\ \A i \in 1..Len(wire) : wire[i].args = a

\* C13 amended: the same, except that SyncSecret populates the workload
\* definition as well and leaves only the secret map empty.
C13_OnlyListedFieldsAndWorkload ==
    call.op # "none"
        => LET a == call.args
           IN  /\ call.op = "SyncVirtualMachine" => NoSecretFields(a)
               /\ call.op \in {"ShutdownVirtualMachine", "KillVirtualMachine"}
                      => (a.K8Secrets = "nil" /\ NoSecretFields(a))
               /\ call.op = "SyncSecret" => a.K8Secrets = "nil"
               /\ call.op \in {"GetDomain", "Ping"} => a = ZeroArgs
               /\ \A i \in 1..Len(wire) : wire[i].args = a

C13_Witness ==
    /\ pc = "waiting"
    /\ call.op = "SyncSecret"
    /\ wire = <<[cmd |-> CmdSyncSecret,
                 args |-> [VM |-> "vm", K8Secrets |-> "nil",
                           SecretUsageType |-> "s", SecretUsageID |-> "s",
                           SecretValue |-> "s"]]>>

\* C14: every named operation invoked on a session after Close has been
\* called on it transmits no request, never waits for the peer, and returns
\* an error, never success; the error is Disconnected.
C14_AfterCloseDisconnected ==
    invokedOn = "closed"
        => /\ pc # "waiting"
           /\ wire = <<>>
           /\ pc = "idle"
                  => /\ ret.op = call.op
                     /\ ret.err # NoError
                     /\ IsDisconnected(ret.err)
                     /\ ret.result.err = ret.err
                     /\ ret.result.exists = FALSE

C14_Witness ==
    /\ invokedOn = "closed"
    /\ Returned
    /\ ret.op = "Ping"
    /\ ret.err = ErrShutdown
    /\ peer = "listening" /\ shutdown = FALSE
    /\ wire = <<>>

\* C15: Close may be called again on a closed session: after any number of
\* calls the session is closed, and a second or later call changes nothing of
\* the session and of its caller and gives the caller no error (the
\* ErrShutdown the transport returns is dropped).
C15_CloseIdempotent ==
    /\ [](closes.calls >= 1 => session = "closed")
    /\ [][(closes.calls >= 1 /\ closes'.calls = closes.calls + 1)
              => /\ closes'.dropped = ErrShutdown
                 /\ UNCHANGED <<peer, session, shutdown, connectErr, pc, call,
                                wire, outcome, ret, dial, invokedOn>>]_vars

C15_Witness ==
    /\ closes = [calls |-> 2, dropped |-> ErrShutdown]
    /\ session = "closed"
    /\ Returned /\ invokedOn = "closed"

\* C16: a call that is blocked awaiting its reply when another thread closes
\* the session does not stay blocked, and what it returns is Disconnected,
\* never success, a transport error or an application rejection.
C16_CloseWhileBlockedIsDisconnected ==
    /\ session = "closed" => pc # "waiting"
    /\ (Returned /\ outcome.cause = "closed")
           => (DisconnectedError(ret.err) /\ ClassOf(ret.err) = "disconnected")

\* C17: ListAllSockets never returns the error of an absent sockets
\* subdirectory, whatever other processes do to the directory during the
\* call: it returns an error only for other failures of the filesystem.
C17_AbsentDirectoryNeverAnError ==
    lpc = "done" => listed.err # ErrNotExist

\* the session is Open: a client that is neither closed nor shut down
Open ==
    session = "open" /\ shutdown = FALSE

\* a step in which the operation in progress returns
Returns ==
    pc = "ready" /\ pc' = "idle"

\* a step in which a named operation is invoked
Invokes ==
    pc = "idle" /\ pc' # "idle"

\* C18, all but its last sentence: a call that returns success or an
\* application rejection leaves the session as it was; a command invoked on
\* an Open session after such a call is transmitted; and what a call returns
\* is made of its own command and of what client.Call gave it, nothing else.
FrameOfSuccessAndRejection ==
    /\ (Returns /\ ClassOf(ret'.err) \in {"success", "rejected"})
           => (session' = session /\ shutdown' = shutdown)
    /\ (Invokes /\ Open /\ Returned
             /\ ClassOf(ret.err) \in {"success", "rejected"})
           => (/\ pc' = "waiting"
               /\ wire' = <<[cmd |-> call'.cmd, args |-> call'.args]>>)
    /\ Returns
           => (/\ ret'.err = genericSendCmd(call.cmd, outcome.err,
                                           outcome.reply).err
               /\ ClassOf(ret'.err) = ExpectedClass(outcome.err, outcome.reply))

\* C18 as stated: the above, and only Close or a disconnection moves a
\* session out of Open: when a step that is not Close ends Open, the call
\* pending then, if any, ends Disconnected.
C18_SuccessAndRejectionKeepSession ==
    [][/\ FrameOfSuccessAndRejection
       /\ (Open /\ ~Open')
              => (\/ session' = "closed"
                  \/ pc # "waiting"
                  \/ DisconnectedError(outcome'.err))]_vars

\* C18 amended: the above, and only Close, a disconnection or a response
\* whose body cannot be decoded moves a session out of Open; the last ends
\* the pending call with a transport error.
C18_SuccessAndRejectionKeepSessionDecoding ==
    [][/\ FrameOfSuccessAndRejection
       /\ (Open /\ ~Open')
              => (\/ session' = "closed"
                  \/ pc # "waiting"
                  \/ DisconnectedError(outcome'.err)
                  \/ (/\ outcome'.cause = "fault"
                      /\ ExpectedClass(outcome'.err, outcome'.reply)
                             = "transport"))]_vars

C18_Witness ==
    /\ Returned
    /\ outcome.cause = "reply"
    /\ ClassOf(ret.err) = "rejected"
    /\ Len(wire) = 1
    /\ Open
    /\ closes.calls = 0

\* C19: an invocation of a named operation transmits at most one request,
\* exactly one while it waits, and once client.Call has given its outcome,
\* whatever the outcome, the next step of the operation is its return, with
\* nothing transmitted in between; GetClient makes exactly one connection
\* attempt.
C19_NoRetries ==
    /\ [](/\ Len(wire) <= 1
          /\ pc = "waiting" => Len(wire) = 1
          /\ dial.attempts <= 1
          /\ dial.heard # "none" => dial.attempts = 1)
    /\ [][pc = "ready" => (pc' \in {"ready", "idle"} /\ wire' = wire)]_vars

C19_Witness ==
    /\ Returned
    /\ Len(wire) = 1
    /\ outcome.cause = "peerClosed"
    /\ ClassOf(ret.err) = "disconnected"
    /\ dial = [attempts |-> 1, heard |-> "listening"]

(***************************************************************************)
(* Claims about identities that hold the separator.                        *)
(***************************************************************************)
\* C20: when two different identities, whose components hold no '/', derive
\* the same address, one of their components holds '_'; the derivation gave
\* each an address and no error; and DomainFromSocketPath of that address
\* succeeds with the namespace the text before the first '_' of the file
\* name and the name the text between the first and the second, an identity
\* that differs from at least one of the two.
C20_SeparatorCollisionsParse ==
    (/\ apc = "parsedFirst"
     /\ <<namespace, name>> # <<namespace2, name2>>
     /\ socketPath = socketPath2
     /\ NoSlash(namespace) /\ NoSlash(name)
     /\ NoSlash(namespace2) /\ NoSlash(name2))
        => /\ \E c \in {namespace, name, namespace2, name2} : HasChar(c, "_")
           /\ socketPath # <<>>
           /\ domain.err = NoError
           /\ domain.domain.isNil = FALSE
           /\ NoSeparator(domain.domain.namespace)
           /\ NoSeparator(domain.domain.name)
           /\ HasPrefix(Base(socketPath),
                        domain.domain.namespace \o <<"_">>
                            \o domain.domain.name \o <<"_">>)
           /\ \/ <<domain.domain.namespace, domain.domain.name>>
                     # <<namespace, name>>
              \/ <<domain.domain.namespace, domain.domain.name>>
                     # <<namespace2, name2>>

C20_Witness ==
    /\ apc = "parsedFirst"
    /\ namespace = <<"_">> /\ name = <<>>
    /\ namespace2 = <<>> /\ name2 = <<"_">>
    /\ socketPath = <<"/", "r", "/">> \o SocketsName \o <<"/", "_", "_">>
                        \o SockSuffix
    /\ socketPath2 = socketPath
    /\ domain.err = NoError
    /\ domain.domain.namespace = <<>> /\ domain.domain.name = <<>>

====
